---- MODULE Spec2Model ----
(***************************************************************************)
(* Message synchronisation engine of the webhooks repository.              *)
(*                                                                         *)
(*   prog = "sync" : scripts/sync.py  - main(), upsert_message_strict,     *)
(*                   ensure_webhook_fingerprint, discord_request_raw,      *)
(*                   load_state, save_state                                *)
(*   prog = "lib"  : scripts/lib/discord_api.py - upsert_message,          *)
(*                   edit_webhook_message, create_webhook_message,         *)
(*                   discord_request                                       *)
(*                                                                         *)
(* The remote endpoint is the set of live webhook messages; its answers    *)
(* are the inputs of the transport steps.                                  *)
(***************************************************************************)
EXTENDS Integers, Sequences, FiniteSets, TLC

\* ------------------------------------------------------------------ bounds
MaxId == 3        \* message ids the endpoint hands out
MaxEnv == 2       \* disturbances from outside the process (operator, endpoint, disk)
Max429 == 1       \* consecutive 429 answers to one discord_request_raw call
MaxReq == 7       \* requests of one transport call kept in its log (the last ones)
MaxCalls == 4     \* translate calls of one run

\* --------------------------------------------------------------- constants
MAX_RETRIES == 6
TORDER_MAX == 2500    \* len(order) > 2500
PURGE_COUNT == 400    \* range(400)

\* ------------------------------------------------------------ value spaces
None == 0
NoHash == "none"
NoUrl == ""
NoFp == <<>>
Hashes == {"h1", "h2"}
Urls == {"u1", "u2"}

\* the items main() produces, in the order it processes them, and the
\* webhook key each one is sent to
ItemSeq == <<"character::x", "general::y">>
Keys == {ItemSeq[i] : i \in 1..Len(ItemSeq)}
webhook_key(k) == IF k = "character::x" THEN "characters" ELSE "general"
Dests == {webhook_key(k) : k \in Keys}

VARIABLES
    prog,      \* which program runs: "sync" or "lib"
    disk,      \* state/state.json: [exists, items, webhook_fp]
    state,     \* the in-memory state dict of the running process
    pc,        \* position of the process
    idx,       \* index in ItemSeq of the item main() is at
    cur,       \* frame of the upsert in progress
    attempt,   \* iteration of the transport loop in progress
    remote,    \* live messages on the endpoint: [id, key, url]
    nextId,    \* next message id the endpoint hands out
    webhooks,  \* DISCORD_WEBHOOKS_JSON: webhook key -> url (NoUrl: absent)
    src,       \* item key -> content hash the scraper computes now
    env,       \* disturbances so far
    tr,        \* the transport call observed on its own (prog = "transport")
    fs,        \* state/state.json as text and the process that loads and saves it
    rendered,  \* the last two RenderedDiscordMessage of the scraper
    diag,      \* the last failure diagnostic raised
    tstate,    \* state["tcache"] and state["torder"] of TranslatorENFR
    eq         \* one input given to both upserts, and what each did with it

vars == <<prog, disk, state, pc, idx, cur, attempt, remote, nextId,
          webhooks, src, env, tr, fs, rendered, diag, tstate, eq>>

\* ------------------------------------------------------------ pure helpers
sha(url) == <<"sha256", url>>

stable_hash(h) == <<"sha256", "payload", h>>

\* an absent record and an empty dict read the same through dict.get
EmptyItem == [message_id |-> None, payload_hash |-> NoFp, source_hash |-> NoHash]

EmptyState == [items |-> [k \in Keys |-> EmptyItem],
               webhook_fp |-> [d \in Dests |-> NoFp]]

NoDisk == [exists |-> FALSE, items |-> EmptyState.items,
           webhook_fp |-> EmptyState.webhook_fp]

\* the frame of an upsert: its arguments, the record it found, the transport
\* calls it made so far with the status that ended each, and how it ended
NoCall == -1
NoFrame == [key |-> "", dest |-> "", url |-> NoUrl, h |-> NoHash,
            before |-> EmptyItem, calls |-> <<>>, edit_url |-> <<>>,
            patch_status |-> NoCall,
            post_status |-> NoCall, outcome |-> "", err |-> "",
            strict |-> FALSE]

Frame(k, d, url, h, item, strict) ==
    [key |-> k, dest |-> d, url |-> url, h |-> h, before |-> item,
     calls |-> <<>>, edit_url |-> <<>>, patch_status |-> NoCall,
     post_status |-> NoCall, outcome |-> "", err |-> "", strict |-> strict]

SendPcs == {"patch", "post", "repost"}

\* mutant: the edit goes to the newest message of the endpoint
EditUrl_Newest(url, message_id) ==
    <<url, "messages", IF nextId > 1 THEN nextId - 1 ELSE message_id>>

\* f"{webhook_url}/messages/{message_id}"
EditUrl(url, message_id) == <<url, "messages", message_id>>

Is2xx(status) == 200 <= status /\ status < 300

Live(id, url) == \E m \in remote : m.id = id /\ m.url = url

\* what a request can meet: NetErr is a requests.RequestException (no
\* response), the others are the status of the response
NetErr == 0

\* PATCH url/messages/id: the endpoint edits a live message of that webhook
\* and answers 404 for any other id
PatchAnswers(edit_url) ==
    {IF Live(edit_url[3], edit_url[1]) THEN 200 ELSE 404, NetErr, 400, 429, 500}

\* POST url?wait=true: 200 carries the created message with its id, 204 is a
\* created message with an empty body
PostAnswers == {200, 204, NetErr, 400, 429, 500}

\* a transport call: its arguments, where it is, the loop index of
\* discord_request, the requests sent with the answer and the sleep that
\* followed each, and how it ended
NoTransport == [fn |-> "", method |-> "", allow_404 |-> FALSE, at |-> "idle",
                attempt |-> 0, log |-> <<>>, result |-> "", status |-> NoCall,
                text |-> <<>>]

\* the parts of the repository a specification does not run
NoFs == [exists |-> FALSE, text |-> <<>>, at |-> "idle", mem |-> <<>>,
         todo |-> <<>>, before |-> <<>>, new |-> <<>>, loaded |-> ""]

NoRendered == <<>>

NoDiag == <<>>

NoText == [kind |-> "", key |-> 0]
NoTState ==
    [tcache |-> {}, torder |-> <<>>, calls |-> 0, seen |-> 0, last |-> NoText]

NoEq == <<>>

Elsewhere ==
    /\ fs = NoFs
    /\ rendered = NoRendered
    /\ diag = NoDiag
    /\ tstate = NoTState
    /\ eq = NoEq

\* ---------------------------------------------------------------- load/save
load_state(d) ==
    IF ~d.exists THEN EmptyState
    ELSE [items |-> d.items, webhook_fp |-> d.webhook_fp]

save_state(s) == [exists |-> TRUE, items |-> s.items, webhook_fp |-> s.webhook_fp]

\* -------------------------------------------------------------------- Init
Init ==
    /\ prog \in {"sync", "lib"}
    /\ disk = NoDisk
    /\ state = EmptyState
    /\ pc = "idle"
    /\ idx = 0
    /\ cur = NoFrame
    /\ attempt = 0
    /\ remote = {}
    /\ nextId = 1
    /\ webhooks = [d \in Dests |-> "u1"]
    /\ src = [k \in Keys |-> "h1"]
    /\ env = 0
    /\ tr = NoTransport
    /\ Elsewhere

\* ------------------------------------------------------------ main(), sync
\* main: state = load_state()
StartRun ==
    /\ prog = "sync" /\ pc = "idle"
    /\ state' = load_state(disk)
    /\ pc' = "item"
    /\ idx' = 1
    /\ UNCHANGED <<prog, tr, fs, rendered, diag, tstate, eq, disk, cur, attempt, remote, nextId, webhooks, src, env>>

\* main: a section whose webhook is not configured is skipped
SkipItem ==
    /\ prog = "sync" /\ pc = "item" /\ idx <= Len(ItemSeq)
    /\ webhooks[webhook_key(ItemSeq[idx])] = NoUrl
    /\ idx' = idx + 1
    /\ UNCHANGED <<prog, tr, fs, rendered, diag, tstate, eq, disk, state, pc, cur, attempt, remote, nextId,
                   webhooks, src, env>>

\* mutant: the fingerprint is overwritten without being compared
FingerprintMismatch_Never(s, d, url) == FALSE

\* ensure_webhook_fingerprint raises: a fingerprint is stored and differs
FingerprintMismatch(s, d, url) ==
    s.webhook_fp[d] # NoFp /\ s.webhook_fp[d] # sha(url)

\* mutant: the fingerprint is stored under every webhook key
ensure_webhook_fingerprint_EveryKey(s, d, url) ==
    [s EXCEPT !.webhook_fp = [x \in Dests |-> sha(url)]]

ensure_webhook_fingerprint(s, d, url) ==
    [s EXCEPT !.webhook_fp[d] = sha(url)]

\* mutant: the stored hash is read under the key "hash", which the records of
\* upsert_message_strict do not have
StrictUnchanged_WrongKey(item, h) == NoHash = h

\* upsert_message_strict: prev_source == source_hash
StrictUnchanged(item, h) == item.source_hash = h

\* upsert_message_strict, lines 176-188: fingerprint, hash gate, dispatch
UpsertStrictBegin ==
    /\ prog = "sync" /\ pc = "item" /\ idx <= Len(ItemSeq)
    /\ LET k == ItemSeq[idx]
           d == webhook_key(k)
           url == webhooks[d]
           item == state.items[k]
           frame == Frame(k, d, url, src[k], item, TRUE)
       IN /\ url # NoUrl
          /\ IF FingerprintMismatch(state, d, url)
             THEN /\ cur' = [frame EXCEPT !.outcome = "error", !.err = "fingerprint"]
                  /\ pc' = "ret"
                  /\ state' = state
             ELSE /\ state' = ensure_webhook_fingerprint(state, d, url)
                  /\ IF StrictUnchanged(item, src[k])
                     THEN /\ cur' = [frame EXCEPT !.outcome = "skip"]
                          /\ pc' = "ret"
                     ELSE /\ cur' = frame
                          /\ pc' = IF item.message_id # None THEN "patch" ELSE "post"
    /\ attempt' = 0
    /\ UNCHANGED <<prog, tr, fs, rendered, diag, tstate, eq, disk, idx, remote, nextId, webhooks, src, env>>

\* mutant: the record holds the id after the one of the message
StrictRecord_NextId(mid, h) ==
    [message_id |-> mid + 1, payload_hash |-> stable_hash(h), source_hash |-> h]

\* the record upsert_message_strict writes
StrictRecord(mid, h) ==
    [message_id |-> mid, payload_hash |-> stable_hash(h), source_hash |-> h]

\* mutant: a 404 on the PATCH is an error like any other non-2xx
StrictPatchOutcome_No404(status) ==
    IF status = NetErr THEN "error"
    ELSE IF ~Is2xx(status) THEN "error"
    ELSE "ok"

\* upsert_message_strict, lines 191-211: what the answer to the PATCH leads to
StrictPatchOutcome(status) ==
    IF status = NetErr THEN "error"
    ELSE IF status = 404 THEN "notfound"
    ELSE IF ~Is2xx(status) THEN "error"
    ELSE "ok"

\* mutant: any 2xx answer to the POST is taken for a created message
StrictPostOutcome_Any2xx(status) ==
    IF status = NetErr THEN "error"
    ELSE IF ~Is2xx(status) THEN "error"
    ELSE "ok"

\* upsert_message_strict, lines 195-201 and 216-222: what the answer to the
\* POST leads to; resp.json() raises on a 2xx without a document
StrictPostOutcome(status) ==
    IF status = NetErr THEN "error"
    ELSE IF ~Is2xx(status) THEN "error"
    ELSE IF status = 200 THEN "ok"
    ELSE "noid"

\* mutant: the record is written before the answer is looked at
ItemsAfter_Always(items, k, outcome, rec) == [items EXCEPT ![k] = rec]

\* the items after the transport call of an upsert ended with `outcome`
ItemsAfter(items, k, outcome, rec) ==
    IF outcome = "ok" THEN [items EXCEPT ![k] = rec] ELSE items

\* the endpoint serves a POST: a 2xx creates one message
Created(status, k, url) ==
    IF Is2xx(status) THEN {[id |-> nextId, key |-> k, url |-> url]} ELSE {}

\* discord_request_raw for the PATCH of line 190, then lines 191-211
RawPatch(status) ==
    /\ prog = "sync" /\ pc = "patch"
    /\ status \in PatchAnswers(EditUrl(cur.url, cur.before.message_id))
    /\ IF status = 429
       THEN /\ attempt < Max429
            /\ attempt' = attempt + 1
            /\ cur' = [cur EXCEPT !.edit_url = EditUrl(cur.url, cur.before.message_id)]
            /\ UNCHANGED <<pc, state>>
       ELSE LET o == StrictPatchOutcome(status)
            IN /\ attempt' = 0
               /\ state' = [state EXCEPT !.items = ItemsAfter(@, cur.key, o,
                               StrictRecord(cur.before.message_id, cur.h))]
               /\ IF o = "notfound"
                  THEN /\ pc' = "repost"
                       /\ cur' = [cur EXCEPT !.calls = Append(@, "PATCH"),
                                             !.edit_url = EditUrl(cur.url, cur.before.message_id),
                                             !.patch_status = status]
                  ELSE /\ pc' = "ret"
                       /\ cur' = [cur EXCEPT !.calls = Append(@, "PATCH"),
                                             !.edit_url = EditUrl(cur.url, cur.before.message_id),
                                             !.patch_status = status,
                                             !.outcome = o,
                                             !.err = IF o = "error" THEN "http" ELSE ""]
    /\ UNCHANGED <<prog, tr, fs, rendered, diag, tstate, eq, disk, idx, remote, nextId, webhooks, src, env>>

\* discord_request_raw for the POST of line 194 (after a 404) or of line 215,
\* then lines 195-202 or 216-222
RawPost(status) ==
    /\ prog = "sync" /\ pc \in {"post", "repost"}
    /\ status \in PostAnswers
    /\ IF status = 429
       THEN /\ attempt < Max429
            /\ attempt' = attempt + 1
            /\ UNCHANGED <<pc, cur, state, remote, nextId>>
       ELSE LET o == StrictPostOutcome(status)
                new == Created(status, cur.key, cur.url)
            IN /\ new # {} => nextId <= MaxId
               /\ attempt' = 0
               /\ pc' = "ret"
               /\ remote' = remote \cup new
               /\ nextId' = nextId + Cardinality(new)
               /\ state' = [state EXCEPT !.items = ItemsAfter(@, cur.key, o,
                               StrictRecord(nextId, cur.h))]
               /\ cur' = [cur EXCEPT !.calls = Append(@, "POST"),
                                     !.post_status = status,
                                     !.outcome = IF o = "ok" THEN "ok" ELSE "error",
                                     !.err = IF o = "ok" THEN "" ELSE
                                             IF o = "noid" THEN "noid" ELSE "http"]
    /\ UNCHANGED <<prog, tr, fs, rendered, diag, tstate, eq, disk, idx, webhooks, src, env>>

\* main: the call returned; time.sleep(0.25) and the next item
UpsertReturn ==
    /\ prog = "sync" /\ pc = "ret" /\ cur.outcome \in {"ok", "skip"}
    /\ pc' = "item"
    /\ idx' = idx + 1
    /\ cur' = NoFrame
    /\ UNCHANGED <<prog, tr, fs, rendered, diag, tstate, eq, disk, state, attempt, remote, nextId, webhooks, src, env>>

\* main: the call raised; main() has no handler around the upserts, the
\* process ends with the traceback and save_state is not reached
UpsertRaise ==
    /\ prog = "sync" /\ pc = "ret" /\ cur.outcome = "error"
    /\ pc' = "idle"
    /\ idx' = 0
    /\ cur' = NoFrame
    /\ state' = EmptyState
    /\ UNCHANGED <<prog, tr, fs, rendered, diag, tstate, eq, disk, attempt, remote, nextId, webhooks, src, env>>

\* main: save_state(state) after the last section
SaveState ==
    /\ prog = "sync" /\ pc = "item" /\ idx > Len(ItemSeq)
    /\ disk' = save_state(state)
    /\ pc' = "idle"
    /\ idx' = 0
    /\ state' = EmptyState
    /\ UNCHANGED <<prog, tr, fs, rendered, diag, tstate, eq, cur, attempt, remote, nextId, webhooks, src, env>>

\* the process is killed before save_state
Kill ==
    /\ prog = "sync" /\ pc # "idle"
    /\ pc' = "idle"
    /\ idx' = 0
    /\ cur' = NoFrame
    /\ attempt' = 0
    /\ state' = EmptyState
    /\ UNCHANGED <<prog, tr, fs, rendered, diag, tstate, eq, disk, remote, nextId, webhooks, src, env>>

\* ---------------------------------------------- discord_api.upsert_message
\* mutant: every error status is retried while attempts are left
Retryable5xx_AnyStatus(status, att) == att < MAX_RETRIES - 1

\* discord_request, line 83: 500 <= status < 600 and attempt < MAX_RETRIES - 1
Retryable5xx(status, att) ==
    500 <= status /\ status < 600 /\ att < MAX_RETRIES - 1

\* mutant: a 404 is an error also for a request marked allow_404
discord_request_404Raises(status, att, allow_404) ==
    IF status = NetErr THEN "retry"
    ELSE IF status = 429 THEN "retry"
    ELSE IF Is2xx(status) THEN "return"
    ELSE IF Retryable5xx(status, att) THEN "retry"
    ELSE "raise"

\* discord_request, one iteration of `for attempt in range(MAX_RETRIES)`
discord_request(status, att, allow_404) ==
    IF status = NetErr THEN "retry"
    ELSE IF status = 429 THEN "retry"
    ELSE IF Is2xx(status) THEN "return"
    ELSE IF status = 404 /\ allow_404 THEN "return"
    ELSE IF Retryable5xx(status, att) THEN "retry"
    ELSE "raise"

\* upsert_message: prev_hash and prev_hash == src_hash
LibUnchanged(entry, h) == entry.source_hash # NoHash /\ entry.source_hash = h

\* the entry upsert_message writes: {"message_id", "hash"}; the hash is held
\* in the field source_hash
LibRecord(mid, h) == [message_id |-> mid, payload_hash |-> NoFp, source_hash |-> h]

\* mutant: strict_no_duplicate=True refuses to recreate
RecreateOn404_StrictRefuses(strict) == ~strict

\* upsert_message, lines 168-170: a missing message is recreated, whatever
\* strict_no_duplicate is
RecreateOn404(strict) == TRUE

\* upsert_message, lines 147-161
LibCall ==
    /\ prog = "lib" /\ pc = "idle"
    /\ \E k \in Keys, url \in Urls \cup {NoUrl}, h \in Hashes, strict \in BOOLEAN :
          LET entry == state.items[k]
              frame == Frame(k, webhook_key(k), url, h, entry, strict)
          IN IF url = NoUrl
             THEN /\ cur' = [frame EXCEPT !.outcome = "error", !.err = "nowebhook"]
                  /\ pc' = "ret"
             ELSE IF LibUnchanged(entry, h)
             THEN /\ cur' = [frame EXCEPT !.outcome = "skip"]
                  /\ pc' = "ret"
             ELSE /\ cur' = frame
                  /\ pc' = IF entry.message_id # None THEN "patch" ELSE "post"
    /\ attempt' = 0
    /\ UNCHANGED <<prog, tr, fs, rendered, diag, tstate, eq, disk, state, idx, remote, nextId, webhooks, src, env>>

\* edit_webhook_message: one iteration of discord_request(PATCH,
\* allow_404=True), then upsert_message lines 162-166
LibPatch(status) ==
    /\ prog = "lib" /\ pc = "patch"
    /\ status \in PatchAnswers(EditUrl(cur.url, cur.before.message_id))
    /\ LET step == discord_request(status, attempt, TRUE)
       IN IF step = "retry" /\ attempt + 1 < MAX_RETRIES
          THEN /\ attempt' = attempt + 1
               /\ cur' = [cur EXCEPT !.edit_url = EditUrl(cur.url, cur.before.message_id)]
               /\ UNCHANGED <<pc, state>>
          ELSE /\ attempt' = 0
               /\ IF step = "return" /\ status = 404
                  THEN IF RecreateOn404(cur.strict)
                       THEN /\ pc' = "repost"
                            /\ cur' = [cur EXCEPT !.calls = Append(@, "PATCH"),
                                                  !.edit_url = EditUrl(cur.url, cur.before.message_id),
                                                  !.patch_status = status]
                            /\ state' = state
                       ELSE /\ pc' = "ret"
                            /\ cur' = [cur EXCEPT !.calls = Append(@, "PATCH"),
                                                  !.edit_url = EditUrl(cur.url, cur.before.message_id),
                                                  !.patch_status = status,
                                                  !.outcome = "error", !.err = "http"]
                            /\ state' = state
                  ELSE LET o == IF step = "return" THEN "ok" ELSE "error"
                       IN /\ pc' = "ret"
                          /\ cur' = [cur EXCEPT !.calls = Append(@, "PATCH"),
                                                !.edit_url = EditUrl(cur.url, cur.before.message_id),
                                                !.patch_status = status,
                                                !.outcome = o,
                                                !.err = IF o = "ok" THEN "" ELSE "http"]
                          /\ state' = [state EXCEPT !.items = ItemsAfter(@, cur.key, o,
                                          LibRecord(cur.before.message_id, cur.h))]
    /\ UNCHANGED <<prog, tr, fs, rendered, diag, tstate, eq, disk, idx, remote, nextId, webhooks, src, env>>

\* create_webhook_message: one iteration of discord_request(POST), then
\* lines 107-109 and upsert_message lines 171-173 or 179-181
LibPost(status) ==
    /\ prog = "lib" /\ pc \in {"post", "repost"}
    /\ status \in PostAnswers
    /\ LET step == discord_request(status, attempt, FALSE)
           new == Created(status, cur.key, cur.url)
       IN /\ new # {} => nextId <= MaxId
          /\ remote' = remote \cup new
          /\ nextId' = nextId + Cardinality(new)
          /\ IF step = "retry" /\ attempt + 1 < MAX_RETRIES
             THEN /\ attempt' = attempt + 1
                  /\ UNCHANGED <<pc, cur, state>>
             ELSE LET o == IF step = "return"
                           THEN (IF status = 200 THEN "ok" ELSE "noid")
                           ELSE "error"
                  IN /\ attempt' = 0
                     /\ pc' = "ret"
                     /\ cur' = [cur EXCEPT !.calls = Append(@, "POST"),
                                           !.post_status = status,
                                           !.outcome = IF o = "ok" THEN "ok" ELSE "error",
                                           !.err = IF o = "ok" THEN "" ELSE
                                                   IF o = "noid" THEN "noid" ELSE "http"]
                     /\ state' = [state EXCEPT !.items = ItemsAfter(@, cur.key, o,
                                     LibRecord(nextId, cur.h))]
    /\ UNCHANGED <<prog, tr, fs, rendered, diag, tstate, eq, disk, idx, webhooks, src, env>>

\* upsert_message returned or raised to its caller, which keeps the dict
LibReturn ==
    /\ prog = "lib" /\ pc = "ret"
    /\ pc' = "idle"
    /\ cur' = NoFrame
    /\ UNCHANGED <<prog, tr, fs, rendered, diag, tstate, eq, disk, state, idx, attempt, remote, nextId, webhooks,
                   src, env>>

\* ------------------------------------------------------------- environment
\* a message is deleted by hand on the endpoint
DeleteRemote ==
    /\ pc = "idle"
    /\ \E m \in remote : remote' = remote \ {m}
    /\ env < MaxEnv
    /\ env' = env + 1
    /\ UNCHANGED <<prog, tr, fs, rendered, diag, tstate, eq, disk, state, pc, idx, cur, attempt, nextId, webhooks,
                   src>>

\* the scraped content of an item changes between two runs
ChangeContent ==
    /\ prog = "sync" /\ pc = "idle"
    /\ \E k \in Keys, h \in Hashes :
          /\ h # src[k]
          /\ src' = [src EXCEPT ![k] = h]
    /\ UNCHANGED <<prog, tr, fs, rendered, diag, tstate, eq, disk, state, pc, idx, cur, attempt, remote, nextId,
                   webhooks, env>>

\* the operator configures another webhook url for a key, or removes it
ChangeWebhook ==
    /\ prog = "sync" /\ pc = "idle"
    /\ \E d \in Dests, u \in Urls \cup {NoUrl} :
          /\ u # webhooks[d]
          /\ webhooks' = [webhooks EXCEPT ![d] = u]
    /\ env < MaxEnv
    /\ env' = env + 1
    /\ UNCHANGED <<prog, tr, fs, rendered, diag, tstate, eq, disk, state, pc, idx, cur, attempt, remote, nextId,
                   src>>

\* state/state.json is lost (the file is deleted)
DeleteStateFile ==
    /\ prog = "sync" /\ pc = "idle" /\ disk.exists
    /\ disk' = NoDisk
    /\ env < MaxEnv
    /\ env' = env + 1
    /\ UNCHANGED <<prog, tr, fs, rendered, diag, tstate, eq, state, pc, idx, cur, attempt, remote, nextId,
                   webhooks, src>>

\* state/state.json is partially lost: the record of one item is gone
LoseItemRecord ==
    /\ prog = "sync" /\ pc = "idle" /\ disk.exists
    /\ \E k \in Keys :
          /\ disk.items[k] # EmptyItem
          /\ disk' = [disk EXCEPT !.items[k] = EmptyItem]
    /\ env < MaxEnv
    /\ env' = env + 1
    /\ UNCHANGED <<prog, tr, fs, rendered, diag, tstate, eq, state, pc, idx, cur, attempt, remote, nextId,
                   webhooks, src>>

\* the operator resets the stored fingerprint of a key
ResetFingerprint ==
    /\ prog = "sync" /\ pc = "idle" /\ disk.exists
    /\ \E d \in Dests :
          /\ disk.webhook_fp[d] # NoFp
          /\ disk' = [disk EXCEPT !.webhook_fp[d] = NoFp]
    /\ env < MaxEnv
    /\ env' = env + 1
    /\ UNCHANGED <<prog, tr, fs, rendered, diag, tstate, eq, state, pc, idx, cur, attempt, remote, nextId,
                   webhooks, src>>

\* state/state.json holds a record with a stored hash and no message_id (the
\* file was edited): load_state returns what json.load reads, and the upsert
\* reads message_id with .get and tests it
RecordWithoutId ==
    /\ prog = "sync" /\ pc = "idle" /\ disk.exists
    /\ \E k \in Keys :
          /\ disk.items[k].message_id # None
          /\ disk' = [disk EXCEPT !.items[k].message_id = None]
    /\ env < MaxEnv
    /\ env' = env + 1
    /\ UNCHANGED <<prog, tr, fs, rendered, diag, tstate, eq, state, pc, idx, cur, attempt, remote, nextId,
                   webhooks, src>>

Answers == {NetErr, 200, 204, 400, 404, 429, 500}

Next ==
    \/ StartRun
    \/ SkipItem
    \/ UpsertStrictBegin
    \/ \E status \in Answers : RawPatch(status)
    \/ \E status \in Answers : RawPost(status)
    \/ UpsertReturn
    \/ UpsertRaise
    \/ SaveState
    \/ Kill
    \/ LibCall
    \/ \E status \in Answers : LibPatch(status)
    \/ \E status \in Answers : LibPost(status)
    \/ LibReturn
    \/ DeleteRemote
    \/ ChangeContent
    \/ ChangeWebhook
    \/ DeleteStateFile
    \/ LoseItemRecord
    \/ ResetFingerprint
    \/ RecordWithoutId

Spec == Init /\ [][Next]_vars

\* the batch job of sync.py alone
InitSync == Init /\ prog = "sync"

NextSync ==
    \/ StartRun
    \/ SkipItem
    \/ UpsertStrictBegin
    \/ \E status \in Answers : RawPatch(status)
    \/ \E status \in Answers : RawPost(status)
    \/ UpsertReturn
    \/ UpsertRaise
    \/ SaveState
    \/ Kill
    \/ DeleteRemote
    \/ ChangeContent
    \/ ChangeWebhook
    \/ DeleteStateFile
    \/ LoseItemRecord
    \/ ResetFingerprint
    \/ RecordWithoutId

SpecSync == InitSync /\ [][NextSync]_vars

\* ------------------------------------------------- the transport on its own
\* durations are counted in quarters of a second (the code sleeps 0.25 s
\* more than retry_after in discord_request_raw)
Second == 4

\* the retry_after field of a 429 body: absent or unreadable, 2.5 s, 15 s
Missing == -2
RetryAfters == {Missing, 10, 60}

Min(a, b) == IF a < b THEN a ELSE b

\* what session.request can meet: a RequestException (NetErr) or a response
TransportAnswers ==
    {[status |-> st, retry_after |-> Missing] : st \in {NetErr, 200, 400, 404, 500}}
      \cup {[status |-> 429, retry_after |-> r] : r \in RetryAfters}

\* float(data.get("retry_after", 1.0)); 1.0 when the body cannot be read
retry_after(a) == IF a.retry_after = Missing THEN Second ELSE a.retry_after

\* mutant: the backoff grows by one second per attempt
sleep_backoff_Linear(att) == Second * Min(att + 1, 20)

\* _sleep_backoff: time.sleep(min(2 ** attempt, 20))
sleep_backoff(att) == Second * Min(2 ^ att, 20)

\* discord_request, line 66: time.sleep(min(retry_after, 10.0))
RateLimitSleep(a) == Min(retry_after(a), 10 * Second)

\* discord_request_raw, line 152: time.sleep(retry + 0.25)
RawRateLimitSleep(a) == retry_after(a) + 1

\* discord_request_raw, one iteration of `while True`; session.request is
\* not inside a try, its exception leaves the function
discord_request_raw(status) ==
    IF status = NetErr THEN "escape"
    ELSE IF status = 429 THEN "retry"
    ELSE "return"

\* resp.text, or str(e) of the exception
Text(a) == <<"text", a.status>>

\* the request of one iteration: the arguments of the call, as they are
Request(t) == <<t.method, "url", "json">>

\* the log keeps the last MaxReq requests
Logged(log, e) ==
    IF Len(log) < MaxReq THEN Append(log, e) ELSE Append(Tail(log), e)

\* discord_request(session, method, url, json_payload, allow_404=...) or
\* discord_request_raw(session, method, url, json=payload) is called
TransportCall ==
    /\ prog = "transport" /\ tr.at \in {"idle", "done"}
    /\ \E fn \in {"discord_request", "discord_request_raw"},
          method \in {"PATCH", "POST"}, allow \in BOOLEAN :
          /\ fn = "discord_request_raw" => ~allow
          /\ tr' = [NoTransport EXCEPT !.fn = fn, !.method = method,
                                       !.allow_404 = allow, !.at = "send"]
    /\ UNCHANGED <<prog, fs, rendered, diag, tstate, eq, disk, state, pc, idx, cur, attempt, remote, nextId,
                   webhooks, src, env>>

\* one session.request and what the loop body does with its outcome
TransportAnswer(a) ==
    /\ prog = "transport" /\ tr.at = "send"
    /\ LET lib == tr.fn = "discord_request"
           step == IF lib THEN discord_request(a.status, tr.attempt, tr.allow_404)
                   ELSE discord_request_raw(a.status)
           nap == IF step # "retry" THEN 0
                  ELSE IF a.status = 429
                       THEN (IF lib THEN RateLimitSleep(a) ELSE RawRateLimitSleep(a))
                       ELSE sleep_backoff(tr.attempt)
           entry == [req |-> Request(tr), status |-> a.status,
                     retry_after |-> a.retry_after, slept |-> nap]
       IN tr' = [tr EXCEPT
                   !.log = Logged(@, entry),
                   !.text = Text(a),
                   !.at = IF step = "retry" THEN "sleep" ELSE "done",
                   !.result = IF step = "retry" THEN ""
                              ELSE IF step = "return" THEN "return"
                              ELSE IF step = "raise" THEN "DiscordHTTPError"
                              ELSE "RequestException",
                   !.status = IF step \in {"return", "raise"} THEN a.status
                              ELSE NoCall]
    /\ UNCHANGED <<prog, fs, rendered, diag, tstate, eq, disk, state, pc, idx, cur, attempt, remote, nextId,
                   webhooks, src, env>>

\* time.sleep returns: `continue`; the for loop of discord_request ends
\* after MAX_RETRIES iterations with DiscordHTTPError(0, ...)
TransportWake ==
    /\ prog = "transport" /\ tr.at = "sleep"
    /\ IF tr.fn = "discord_request_raw"
       THEN tr' = [tr EXCEPT !.at = "send"]
       ELSE IF tr.attempt + 1 < MAX_RETRIES
       THEN tr' = [tr EXCEPT !.at = "send", !.attempt = @ + 1]
       ELSE tr' = [tr EXCEPT !.at = "done", !.attempt = @ + 1,
                             !.result = "DiscordHTTPError", !.status = 0,
                             !.text = <<"retries", tr.text>>]
    /\ UNCHANGED <<prog, fs, rendered, diag, tstate, eq, disk, state, pc, idx, cur, attempt, remote, nextId,
                   webhooks, src, env>>

\* edit_webhook_message, lines 125-127, on what discord_request returned
edit_webhook_message(t) ==
    IF t.status = 404 THEN <<FALSE, t.text>> ELSE <<TRUE, "">>

InitTransport ==
    /\ prog = "transport"
    /\ disk = NoDisk
    /\ state = EmptyState
    /\ pc = "idle"
    /\ idx = 0
    /\ cur = NoFrame
    /\ attempt = 0
    /\ remote = {}
    /\ nextId = 1
    /\ webhooks = [d \in Dests |-> "u1"]
    /\ src = [k \in Keys |-> "h1"]
    /\ env = 0
    /\ tr = NoTransport
    /\ Elsewhere

NextTransport ==
    \/ TransportCall
    \/ \E a \in TransportAnswers : TransportAnswer(a)
    \/ TransportWake

SpecTransport == InitTransport /\ [][NextTransport]_vars

\* the process runs on: a request sent is answered or times out, a sleep ends
SpecTransportFair ==
    /\ SpecTransport
    /\ WF_vars(\E a \in TransportAnswers : TransportAnswer(a))
    /\ WF_vars(TransportWake)

\* ------------------------------------------- state/state.json as a document
\* a JSON object is a function from its keys to values; values are tokens:
\* "{}" and "[]" are the empty dict and list, "I1", "I2" item records of the
\* current format, "M1" the message records of the legacy format
StateKeys == {"items", "webhook_fp", "tcache", "torder"}

KeyOrder == <<"v", "items", "webhook_fp", "tcache", "torder", "messages">>

\* load_state, line 104, and the values of the setdefault calls
Default == [k \in StateKeys \cup {"v"} |->
              IF k = "v" THEN "2" ELSE IF k = "torder" THEN "[]" ELSE "{}"]

\* load_state, lines 110-112: the records of "messages" become records with
\* message_id and payload_hash
MigrateItems(messages) == IF messages = "M1" THEN "I(M1)" ELSE "{}"

\* json.dump: the text is written piece by piece, "{", the members in the
\* order of the dict, "}"
Serialise(doc) ==
    LET keys == SelectSeq(KeyOrder, LAMBDA k : k \in DOMAIN doc)
    IN <<(<<"{">>)>> \o [i \in 1..Len(keys) |-> <<keys[i], doc[keys[i]]>>]
                     \o <<(<<"}">>)>>

\* the text is a whole JSON object
Complete(text) ==
    Len(text) >= 2 /\ text[1] = <<"{">> /\ text[Len(text)] = <<"}">>

\* json.load on a whole object
json_load(text) ==
    LET members == {text[i] : i \in 2..(Len(text) - 1)}
    IN [k \in {m[1] : m \in members} |->
          (CHOOSE m \in members : m[1] = k)[2]]

\* load_state, lines 109-113
Migrated(doc) ==
    IF "messages" \in DOMAIN doc /\ "items" \notin DOMAIN doc
    THEN [k \in StateKeys \cup {"v"} |->
            IF k = "items" THEN MigrateItems(doc["messages"]) ELSE Default[k]]
    ELSE doc

\* load_state, lines 114-118
SetDefaults(doc) ==
    [k \in DOMAIN doc \cup StateKeys \cup {"v"} |->
        IF k \in DOMAIN doc THEN doc[k] ELSE Default[k]]

\* the documents a run can find: the current format, the legacy format, and
\* documents with some keys missing
FoundDocs ==
    { [k \in StateKeys \cup {"v"} |-> IF k = "items" THEN "I1" ELSE Default[k]],
      [k \in {"messages"} |-> "M1"],
      [k \in {"v", "messages"} |-> IF k = "v" THEN "1" ELSE "M1"],
      [k \in {"items"} |-> "I1"],
      [k \in {"v", "items", "webhook_fp"} |-> IF k = "items" THEN "I2" ELSE Default[k]],
      [k \in {} |-> "{}"] }

\* load_state(): json.load raises on a text that is not a whole document
FileLoad ==
    /\ prog = "file" /\ fs.at \in {"idle", "interrupted"}
    /\ IF ~fs.exists
       THEN fs' = [fs EXCEPT !.at = "run", !.loaded = "ok", !.mem = Default]
       ELSE IF ~Complete(fs.text)
       THEN fs' = [fs EXCEPT !.at = "idle", !.loaded = "JSONDecodeError",
                             !.mem = <<>>]
       ELSE fs' = [fs EXCEPT !.at = "run", !.loaded = "ok",
                             !.mem = SetDefaults(Migrated(json_load(fs.text)))]
    /\ UNCHANGED <<prog, tr, rendered, diag, tstate, eq, disk, state, pc, idx,
                   cur, attempt, remote, nextId, webhooks, src, env>>

\* main(): the upserts of the run write records into state["items"]
FileRun ==
    /\ prog = "file" /\ fs.at = "run"
    /\ \E v \in {"I1", "I2"} :
          /\ fs.mem["items"] # v
          /\ fs' = [fs EXCEPT !.mem["items"] = v]
    /\ UNCHANGED <<prog, tr, rendered, diag, tstate, eq, disk, state, pc, idx,
                   cur, attempt, remote, nextId, webhooks, src, env>>

\* save_state, lines 122-123: open(STATE_PATH, "w") creates the file or
\* empties it
SaveOpen ==
    /\ prog = "file" /\ fs.at = "run"
    /\ fs' = [fs EXCEPT !.at = "writing", !.exists = TRUE, !.text = <<>>,
                        !.todo = Serialise(fs.mem),
                        !.before = fs.text, !.new = Serialise(fs.mem)]
    /\ UNCHANGED <<prog, tr, rendered, diag, tstate, eq, disk, state, pc, idx,
                   cur, attempt, remote, nextId, webhooks, src, env>>

\* save_state, line 124: json.dump writes the next piece
SaveWrite ==
    /\ prog = "file" /\ fs.at = "writing" /\ fs.todo # <<>>
    /\ fs' = [fs EXCEPT !.text = Append(@, Head(fs.todo)), !.todo = Tail(@)]
    /\ UNCHANGED <<prog, tr, rendered, diag, tstate, eq, disk, state, pc, idx,
                   cur, attempt, remote, nextId, webhooks, src, env>>

\* save_state returns, main() ends
SaveClose ==
    /\ prog = "file" /\ fs.at = "writing" /\ fs.todo = <<>>
    /\ fs' = [fs EXCEPT !.at = "idle", !.mem = <<>>]
    /\ UNCHANGED <<prog, tr, rendered, diag, tstate, eq, disk, state, pc, idx,
                   cur, attempt, remote, nextId, webhooks, src, env>>

\* the process is interrupted (killed, power loss) inside save_state
SaveInterrupted ==
    /\ prog = "file" /\ fs.at = "writing"
    /\ fs' = [fs EXCEPT !.at = "interrupted", !.mem = <<>>, !.todo = <<>>]
    /\ UNCHANGED <<prog, tr, rendered, diag, tstate, eq, disk, state, pc, idx,
                   cur, attempt, remote, nextId, webhooks, src, env>>

\* the upsert variables, at rest
UpsertIdle ==
    /\ disk = NoDisk
    /\ state = EmptyState
    /\ pc = "idle"
    /\ idx = 0
    /\ cur = NoFrame
    /\ attempt = 0
    /\ remote = {}
    /\ nextId = 1
    /\ webhooks = [d \in Dests |-> "u1"]
    /\ src = [k \in Keys |-> "h1"]
    /\ env = 0
    /\ tr = NoTransport

InitFile ==
    /\ prog = "file"
    /\ UpsertIdle
    /\ \/ fs = NoFs
       \/ \E doc \in FoundDocs : fs = [NoFs EXCEPT !.exists = TRUE,
                                                   !.text = Serialise(doc)]
    /\ rendered = NoRendered
    /\ diag = NoDiag
    /\ tstate = NoTState
    /\ eq = NoEq

NextFile ==
    \/ FileLoad
    \/ FileRun
    \/ SaveOpen
    \/ SaveWrite
    \/ SaveClose
    \/ SaveInterrupted

SpecFile == InitFile /\ [][NextFile]_vars

\* ------------------------------------------------ scrape_hideout: rendering
\* what the scraper reads on a page: names and titles, recap lines, stat
\* lines, and the bytes of the screenshot
Names == {"Meliodas", "Ban"}
Recaps == {<<"r1">>, <<"r1", "r2">>}
StatLines == {<<>>, <<"s1">>}
ImageBytes == {"jpeg1", "jpeg2"}

\* "|".join(lines)
RECURSIVE JoinBar(_)
JoinBar(lines) ==
    IF lines = <<>> THEN <<>>
    ELSE IF Len(lines) = 1 THEN lines
    ELSE <<lines[1], "|">> \o JoinBar(Tail(lines))

\* scrape_hideout.stable_hash: sha256 of the text
stable_hash_text(text) == <<"sha256", text>>

\* build_embed_payload: the embed with its text and the name of the attached
\* image
build_embed_payload(title, description_lines, image_attachment_name, fields) ==
    [title |-> title, description |-> description_lines,
     image |-> <<"attachment://", image_attachment_name>>, fields |-> fields]

\* scrape_character, lines 341-366
scrape_character(url, name, recap, stat_lines, img_bytes) ==
    LET img_name == <<"perso_", name, ".jpg">>
    IN [key |-> <<"character::", url>>,
        payload |-> build_embed_payload(<<name, " - Guide personnage">>, recap, img_name,
                                       stat_lines),
        files |-> <<(<<img_name, img_bytes, "image/jpeg">>)>>,
        content_hash |-> stable_hash_text(<<name, "|">> \o JoinBar(recap)
                                            \o <<"|">> \o JoinBar(stat_lines))]

\* scrape_topics, lines 446-465
scrape_topics(key_prefix, raw_title, recap, img_bytes) ==
    LET img_name == <<key_prefix, "_", raw_title, ".jpg">>
    IN [key |-> <<key_prefix, "::", raw_title>>,
        payload |-> build_embed_payload(<<key_prefix, " - ", raw_title>>, recap, img_name,
                                       <<>>),
        files |-> <<(<<img_name, img_bytes, "image/jpeg">>)>>,
        content_hash |-> stable_hash_text(<<raw_title, "|">> \o JoinBar(recap))]

\* the message rendered now, after the one rendered before
Rendered(msg) ==
    rendered' = IF rendered = <<>> THEN <<msg>>
                ELSE <<rendered[Len(rendered)], msg>>

ScrapeCharacter ==
    /\ prog = "render"
    /\ \E name \in Names, recap \in Recaps, stat_lines \in StatLines,
          img_bytes \in ImageBytes :
          Rendered(scrape_character("/characters/1", name, recap, stat_lines, img_bytes))
    /\ UNCHANGED <<prog, tr, fs, diag, tstate, eq, disk, state, pc, idx, cur,
                   attempt, remote, nextId, webhooks, src, env>>

ScrapeTopics ==
    /\ prog = "render"
    /\ \E raw_title \in Names, recap \in Recaps, img_bytes \in ImageBytes :
          Rendered(scrape_topics("general", raw_title, recap, img_bytes))
    /\ UNCHANGED <<prog, tr, fs, diag, tstate, eq, disk, state, pc, idx, cur,
                   attempt, remote, nextId, webhooks, src, env>>

InitRender ==
    /\ prog = "render"
    /\ UpsertIdle
    /\ Elsewhere

NextRender ==
    \/ ScrapeCharacter
    \/ ScrapeTopics

SpecRender == InitRender /\ [][NextRender]_vars

\* ------------------------------------------------------ failure diagnostics
\* a webhook url as the operator configures it, cut into the pieces the
\* redaction pattern tells apart:
\*   scheme :// host path id / token
Schemes == {"http", "https"}
Hosts == {"discord.com", "discordapp.com", "ptb.discord.com"}
Paths == {"/api/webhooks/", "/api/v10/webhooks/"}
Tokens == {"tokenA", "tokenB"}
Bodies == {"", "body"}

WebhookUrl(scheme, host, path, token) ==
    <<scheme, "://", host, path, "1234", "/", token>>

WebhookUrls ==
    {WebhookUrl(sc, ho, pa, to) :
        sc \in Schemes, ho \in Hosts, pa \in Paths, to \in Tokens}

create_url(webhook_url) == webhook_url \o <<"?wait=true">>

edit_url(webhook_url, message_id) ==
    webhook_url \o <<"/messages/", message_id>>

RequestUrls ==
    {create_url(u) : u \in WebhookUrls}
        \cup {edit_url(u, "9001") : u \in WebhookUrls}

MethodOf(url) == IF url[Len(url)] = "?wait=true" THEN "POST" ELSE "PATCH"

\* re.sub(r"(https?://discord\.com/api/webhooks/\d+/)[^/?]+", r"\1[REDACTED]")
redact_discord_webhook_url(url) ==
    IF /\ url[1] \in {"http", "https"}
       /\ url[2] = "://"
       /\ url[3] = "discord.com"
       /\ url[4] = "/api/webhooks/"
       /\ url[6] = "/"
    THEN [url EXCEPT ![7] = "[REDACTED]"]
    ELSE url

\* the statuses each call raises on, as they print
StrictFatal(method) ==
    IF method = "PATCH" THEN {"400", "401", "403", "500"}
    ELSE {"400", "401", "403", "404", "500"}

LibFatal(method) ==
    IF method = "PATCH" THEN {"400", "401", "403", "500"}
    ELSE {"400", "401", "403", "404", "500"}

\* upsert_message_strict: RuntimeError on a non-2xx answer
StrictError(status, url, body) ==
    [raiser |-> "upsert_message_strict",
     message |-> <<"Discord error", status, MethodOf(url)>>
                     \o redact_discord_webhook_url(url)
                     \o <<"(body:", body, ")">>]

\* DiscordHTTPError.__init__
DiscordHTTPError(status, url, body) ==
    [raiser |-> "discord_request",
     message |-> <<"Discord HTTP", status, "sur">> \o url \o <<"::">> \o body]

StrictRaises ==
    /\ prog = "diag"
    /\ \E url \in RequestUrls, body \in Bodies :
           \E status \in StrictFatal(MethodOf(url)) :
               diag' = StrictError(status, url, body)
    /\ UNCHANGED <<prog, tr, fs, rendered, tstate, eq, disk, state, pc, idx,
                   cur, attempt, remote, nextId, webhooks, src, env>>

LibRaises ==
    /\ prog = "diag"
    /\ \E url \in RequestUrls, body \in Bodies :
           \E status \in LibFatal(MethodOf(url)) :
               diag' = DiscordHTTPError(status, url, <<body>>)
    /\ UNCHANGED <<prog, tr, fs, rendered, tstate, eq, disk, state, pc, idx,
                   cur, attempt, remote, nextId, webhooks, src, env>>

LibExhausted ==
    /\ prog = "diag"
    /\ \E url \in RequestUrls, last_text \in Bodies :
           diag' = DiscordHTTPError("0", url,
                                    <<"Echec apres retries:", last_text>>)
    /\ UNCHANGED <<prog, tr, fs, rendered, tstate, eq, disk, state, pc, idx,
                   cur, attempt, remote, nextId, webhooks, src, env>>

InitDiag ==
    /\ prog = "diag"
    /\ UpsertIdle
    /\ Elsewhere

NextDiag ==
    \/ StrictRaises
    \/ LibRaises
    \/ LibExhausted

SpecDiag == InitDiag /\ [][NextDiag]_vars

\* ------------------------------------------ TranslatorENFR: the translation cache
\* tstate.tcache is the set of keys of state["tcache"], tstate.torder is
\* state["torder"]; a key is sha(text), written as a number; seen counts
\* the distinct texts met so far and last is the text of the last call.

\* lengths of torder a run starts with: the cache as earlier runs left it
InitLens == {0, 1, TORDER_MAX - PURGE_COUNT, TORDER_MAX - 1, TORDER_MAX}

\* the texts a call is given: empty after strip, digits and symbols only, or
\* words - the oldest and the newest cached text, the first text ever seen,
\* and one never seen
CandidateKeys(t) ==
    (IF t.torder = <<>> THEN {} ELSE {Head(t.torder), t.torder[Len(t.torder)]})
        \cup {1, t.seen + 1}

Texts(t) ==
    {[kind |-> "empty", key |-> 0], [kind |-> "numeric", key |-> 0]}
        \cup {[kind |-> "words", key |-> k] : k \in CandidateKeys(t)}

Entries(order) == {order[i] : i \in 1..Len(order)}

\* variant: the purge shortens torder and leaves tcache as it is
purge_oldest_OrderOnly(t) ==
    LET n == IF Len(t.torder) < PURGE_COUNT THEN Len(t.torder) ELSE PURGE_COUNT
    IN [t EXCEPT !.torder = SubSeq(t.torder, n + 1, Len(t.torder))]

\* for _ in range(400): k = order.pop(0); cache.pop(k, None)
purge_oldest(t) ==
    LET n == IF Len(t.torder) < PURGE_COUNT THEN Len(t.torder) ELSE PURGE_COUNT
    IN [t EXCEPT !.torder = SubSeq(t.torder, n + 1, Len(t.torder)),
                 !.tcache = t.tcache \ {t.torder[i] : i \in 1..n}]

translate(t, text) ==
    IF text.kind = "empty" THEN t
    ELSE IF text.kind = "numeric" THEN t
    ELSE IF text.key \in t.tcache THEN t
    ELSE LET stored == [t EXCEPT !.tcache = t.tcache \cup {text.key},
                                 !.torder = Append(t.torder, text.key)]
         IN IF Len(stored.torder) > TORDER_MAX THEN purge_oldest(stored)
            ELSE stored

Translate ==
    /\ prog = "cache"
    /\ tstate.calls < MaxCalls
    /\ \E text \in Texts(tstate) :
           tstate' = [translate(tstate, text) EXCEPT
                          !.calls = tstate.calls + 1,
                          !.seen = IF text.key > tstate.seen THEN text.key
                                   ELSE tstate.seen,
                          !.last = text]
    /\ UNCHANGED <<prog, tr, fs, rendered, diag, eq, disk, state, pc, idx,
                   cur, attempt, remote, nextId, webhooks, src, env>>

InitCache ==
    /\ prog = "cache"
    /\ UpsertIdle
    /\ fs = NoFs /\ rendered = NoRendered /\ diag = NoDiag /\ eq = NoEq
    /\ \E len \in InitLens :
           tstate = [NoTState EXCEPT !.tcache = 1..len,
                                     !.torder = [i \in 1..len |-> i],
                                     !.seen = len]

NextCache ==
    \/ Translate

SpecCache == InitCache /\ [][NextCache]_vars

\* --------------------------------------------- the two upserts side by side
\* one item, its record before the call, the hash of its content, the
\* fingerprint held for its webhook, and the answers the endpoint will give
\* to the first and to the second request
EquivAnswers == {200, 204, 404} \* 2xx with an id, 2xx without, 404
AnswerSeqs == {<<a, b>> : a \in EquivAnswers, b \in EquivAnswers}
PriorRecords ==
    {[message_id |-> m, payload_hash |-> NoFp, source_hash |-> h] :
        m \in {None, 1}, h \in Hashes \cup {NoHash}}
StoredFps == {NoFp} \cup {sha(u) : u \in Urls}
AnsweredId == 2                 \* the id in a 2xx answer that has one

Ran(calls, rec, err) == [calls |-> calls, record |-> rec, err |-> err]

\* upsert_message_strict, sync.py lines 167-222
RunStrict(fp, url, rec, h, answers) ==
    LET s == [EmptyState EXCEPT !.webhook_fp["general"] = fp]
        post(calls, status) ==
            IF StrictPostOutcome(status) = "ok"
            THEN Ran(Append(calls, "POST"), StrictRecord(AnsweredId, h), "")
            ELSE Ran(Append(calls, "POST"), rec, StrictPostOutcome(status))
    IN IF FingerprintMismatch(s, "general", url)
       THEN Ran(<<>>, rec, "fingerprint")
       ELSE IF StrictUnchanged(rec, h) THEN Ran(<<>>, rec, "")
       ELSE IF rec.message_id # None
       THEN LET o == StrictPatchOutcome(answers[1])
            IN IF o = "notfound" THEN post(<<"PATCH">>, answers[2])
               ELSE IF o = "ok"
               THEN Ran(<<"PATCH">>, StrictRecord(rec.message_id, h), "")
               ELSE Ran(<<"PATCH">>, rec, "http")
       ELSE post(<<>>, answers[1])

\* upsert_message, discord_api.py lines 130-181
RunLib(fp, url, rec, h, answers) ==
    LET post(calls, status) ==
            IF discord_request(status, 0, FALSE) = "return"
            THEN IF status = 200
                 THEN Ran(Append(calls, "POST"), LibRecord(AnsweredId, h), "")
                 ELSE Ran(Append(calls, "POST"), rec, "noid")
            ELSE Ran(Append(calls, "POST"), rec, "http")
    IN IF LibUnchanged(rec, h) THEN Ran(<<>>, rec, "")
       ELSE IF rec.message_id # None
       THEN IF discord_request(answers[1], 0, TRUE) = "return"
            THEN IF answers[1] = 404
                 THEN IF RecreateOn404(TRUE) THEN post(<<"PATCH">>, answers[2])
                      ELSE Ran(<<"PATCH">>, rec, "http")
                 ELSE Ran(<<"PATCH">>, LibRecord(rec.message_id, h), "")
            ELSE Ran(<<"PATCH">>, rec, "http")
       ELSE post(<<>>, answers[1])

NotRun == <<>>

EquivStrict ==
    /\ prog = "equiv" /\ eq.strict = NotRun
    /\ eq' = [eq EXCEPT !.strict =
                  RunStrict(eq.fp, eq.url, eq.prior, eq.h, eq.answers)]
    /\ UNCHANGED <<prog, tr, fs, rendered, diag, tstate, disk, state, pc, idx,
                   cur, attempt, remote, nextId, webhooks, src, env>>

EquivLib ==
    /\ prog = "equiv" /\ eq.lib = NotRun
    /\ eq' = [eq EXCEPT !.lib =
                  RunLib(eq.fp, eq.url, eq.prior, eq.h, eq.answers)]
    /\ UNCHANGED <<prog, tr, fs, rendered, diag, tstate, disk, state, pc, idx,
                   cur, attempt, remote, nextId, webhooks, src, env>>

InitEquiv ==
    /\ prog = "equiv"
    /\ UpsertIdle
    /\ fs = NoFs /\ rendered = NoRendered /\ diag = NoDiag /\ tstate = NoTState
    /\ \E fp \in StoredFps, url \in Urls, rec \in PriorRecords, h \in Hashes,
          answers \in AnswerSeqs :
           eq = [fp |-> fp, url |-> url, prior |-> rec, h |-> h,
                 answers |-> answers, strict |-> NotRun, lib |-> NotRun]

NextEquiv ==
    \/ EquivStrict
    \/ EquivLib

SpecEquiv == InitEquiv /\ [][NextEquiv]_vars

\* ------------------------------------------------------------------ claims
\* the live messages of item k behind the webhook url
LiveFor(k, url) == {m \in remote : m.key = k /\ m.url = url}

Configured(k) == webhooks[webhook_key(k)] # NoUrl

\* C1: across any sequence of batch runs of main(), also runs aborted by an
\* error or a kill before save_state and runs that start from a lost or
\* partial state file, the endpoint never holds more than one live message
\* for the same item key (counted per webhook, so that a message left behind
\* another webhook by a reconfiguration is not taken for a duplicate)
C1_OneLivePerKey ==
    prog = "sync" => \A k \in Keys, u \in Urls : Cardinality(LiveFor(k, u)) <= 1

\* the state file holds, for every item of a configured section, the content
\* hash the scraper computes now and the fingerprint of the configured url
Synced ==
    /\ disk.exists
    /\ \A k \in Keys : Configured(k) =>
          /\ disk.items[k].source_hash = src[k]
          /\ disk.webhook_fp[webhook_key(k)] = sha(webhooks[webhook_key(k)])

\* C2: idempotence. A run that completes leaves the state file Synced; a run
\* that starts from a Synced state file (every item has the content hash of
\* the completed run) never reaches a PATCH or a POST, every upsert stops at
\* the hash comparison, and the item records stay those of the state file, in
\* memory and in the file the run saves. In upsert_message likewise: a call
\* whose hash is the stored one makes no call and leaves the entry alone.
C2_Idempotent ==
    /\ []((prog = "sync" /\ pc # "idle" /\ Synced) =>
            /\ pc \notin SendPcs
            /\ cur.calls = <<>>
            /\ (pc = "ret" => cur.outcome = "skip")
            /\ state.items = disk.items)
    /\ []((prog = "lib" /\ pc # "idle" /\ cur.url # NoUrl
             /\ cur.before.source_hash = cur.h) =>
            /\ pc = "ret" /\ cur.outcome = "skip" /\ cur.calls = <<>>
            /\ state.items[cur.key] = cur.before)
    /\ [][(SaveState => Synced') /\ ((SaveState /\ Synced) => disk'.items = disk.items)]_vars

C2_SecondRunSkips ==
    /\ prog = "sync" /\ Synced /\ pc = "ret" /\ idx = Len(ItemSeq)
    /\ cur.outcome = "skip"
    /\ \A k \in Keys : Configured(k) /\ state.items[k].message_id # None

\* an upsert for a configured webhook is back at its caller, for a record
\* that holds a remote id and a stored hash other than the content hash
ChangedRecordReturned ==
    /\ pc = "ret"
    /\ cur.url # NoUrl
    /\ cur.before.message_id # None
    /\ cur.before.source_hash # cur.h

\* C3 as stated: for every item whose record has a remote_id and whose
\* stored hash differs from the content hash, one upsert issues exactly one
\* mutating call, never zero and never two
C3_ExactlyOneCall ==
    ChangedRecordReturned => Len(cur.calls) = 1

\* C3 amended: unless the upsert is refused by the fingerprint gate, it
\* issues exactly one PATCH, and exactly one POST after it exactly when the
\* PATCH was answered 404
C3_OnePatchAndPostOn404 ==
    ChangedRecordReturned =>
        cur.calls = IF cur.err = "fingerprint" THEN <<>>
                    ELSE IF cur.patch_status = 404 THEN <<"PATCH", "POST">>
                    ELSE <<"PATCH">>

C3_Updated ==
    /\ ChangedRecordReturned /\ cur.outcome = "ok" /\ cur.calls = <<"PATCH">>
    /\ state.items[cur.key].source_hash = cur.h

\* C4: when the PATCH against the stored remote_id answers 404, exactly one
\* POST follows in the same upsert; when it succeeds the record holds the
\* newly returned id and the new content hash, the old id is gone from the
\* state, and exactly one live message exists for the item
C4_RecreateLeavesOneLive ==
    (pc = "ret" /\ cur.patch_status = 404) =>
        /\ cur.calls = <<"PATCH", "POST">>
        /\ cur.outcome = "ok" =>
              /\ state.items[cur.key].message_id # cur.before.message_id
              /\ state.items[cur.key].source_hash = cur.h
              /\ Live(state.items[cur.key].message_id, cur.url)
              /\ \A k \in Keys : state.items[k].message_id # cur.before.message_id
              /\ Cardinality(LiveFor(cur.key, cur.url)) = 1

\* C5 as stated: in the strict upsert a NotFound on the edit is fatal for the
\* item and no Create call is issued
C5_StrictNoCreate ==
    (cur.strict /\ cur.patch_status = 404) =>
        /\ pc # "repost"
        /\ pc = "ret" => (cur.outcome = "error" /\ cur.calls = <<"PATCH">>)

\* C5 amended: the recreate-on-404 path is taken in every mode, in
\* upsert_message with strict_no_duplicate=True and in upsert_message_strict
\* as well: after a NotFound on the edit exactly one Create call is issued,
\* and the item fails only when that Create fails
C5_RecreateInEveryMode ==
    (cur.strict /\ cur.patch_status = 404) =>
        /\ pc \in {"repost", "ret"}
        /\ pc = "ret" =>
              /\ cur.calls = <<"PATCH", "POST">>
              /\ cur.outcome = IF cur.post_status = 200 THEN "ok" ELSE "error"

C5_StrictRecreated ==
    /\ prog = "lib" /\ pc = "ret" /\ cur.strict /\ cur.patch_status = 404
    /\ cur.outcome = "ok"

\* the fingerprint stored for d differs from the digest of the configured url
StoredMismatch(fps, d) ==
    webhooks[d] # NoUrl /\ fps[d] # NoFp /\ fps[d] # sha(webhooks[d])

\* C6: fingerprint gate. While the fingerprint stored in the state file for a
\* key differs from the digest of the url configured for it, no run sends a
\* POST or a PATCH to that key; the mismatch never overwrites the stored
\* fingerprint, in memory or in the file: it changes only by the operator's
\* reset (the fingerprint or the file is removed)
C6_FingerprintGate ==
    /\ []((prog = "sync" /\ pc \in SendPcs) =>
            /\ ~StoredMismatch(disk.webhook_fp, cur.dest)
            /\ state.webhook_fp[cur.dest] = sha(webhooks[cur.dest]))
    /\ [][\A d \in Dests :
            /\ (prog = "sync" /\ StoredMismatch(disk.webhook_fp, d)) =>
                  disk'.webhook_fp[d] \in {disk.webhook_fp[d], NoFp}
            /\ (prog = "sync" /\ pc # "idle" /\ pc' # "idle"
                  /\ StoredMismatch(state.webhook_fp, d)) =>
                  state'.webhook_fp[d] = state.webhook_fp[d]]_vars

C6_MismatchDetected ==
    /\ prog = "sync" /\ pc = "ret" /\ cur.err = "fingerprint"
    /\ StoredMismatch(disk.webhook_fp, cur.dest)
    /\ cur.calls = <<>>

\* C7: when a fingerprint mismatch is detected for one destination, the
\* records written in this run for the items of earlier destinations are
\* kept and are persisted by the run
C7_EarlierRecordsPersisted ==
    [][(UpsertRaise /\ cur.err = "fingerprint") =>
          \A j \in 1..(idx - 1) : disk'.items[ItemSeq[j]] = state.items[ItemSeq[j]]]_vars

\* C8: a fingerprint mismatch on one destination stops mutations to that
\* destination only; the batch driver goes on to the items of the other
\* destinations in the same run
C8_OtherDestinationsProcessed ==
    [][(UpsertRaise /\ cur.err = "fingerprint"
          /\ \E j \in (idx + 1)..Len(ItemSeq) :
                Configured(ItemSeq[j]) /\ webhook_key(ItemSeq[j]) # cur.dest) =>
          (pc' = "item" /\ idx' = idx + 1)]_vars

\* C9: when the upsert of one item fails with a per-item error, the batch
\* driver still invokes the upsert for every remaining item and still saves
\* the state at the end of the run
C9_RunContinuesAfterItemError ==
    [][(UpsertRaise /\ cur.err \in {"http", "noid"}) =>
          (pc' = "item" /\ idx' = idx + 1 /\ state' = state)]_vars

\* C10: whenever an upsert ends in an error the record of the item is what it
\* was before the call; a record is written only by the step in which the
\* remote call that justifies it succeeds
C10_ErrorLeavesRecord ==
    /\ []((pc = "ret" /\ cur.outcome = "error") => state.items[cur.key] = cur.before)
    /\ [][(pc \in SendPcs /\ pc' # "idle" /\ state'.items # state.items) =>
            /\ pc' = "ret" /\ cur'.outcome = "ok"
            /\ IF pc = "patch" THEN Is2xx(cur'.patch_status)
                               ELSE cur'.post_status = 200]_vars

C10_RecreateFailed ==
    /\ pc = "ret" /\ cur.outcome = "error" /\ cur.calls = <<"PATCH", "POST">>
    /\ cur.before.message_id # None

\* an upsert for a configured webhook, let through by the fingerprint gate,
\* is back at its caller
UpsertDone ==
    pc = "ret" /\ cur.url # NoUrl /\ cur.err # "fingerprint"

\* C11: NoRecord. When the state has no record for the item key, or the
\* record has no remote_id, whatever its stored hash is, the upsert issues
\* exactly one Create and no Update, and on success the record holds the id
\* the endpoint returned and the content hash of the item
C11_NoRecordCreates ==
    (UpsertDone /\ cur.before.message_id = None) =>
        /\ cur.calls = <<"POST">>
        /\ cur.outcome = "ok" =>
              /\ state.items[cur.key].message_id = nextId - 1
              /\ Live(nextId - 1, cur.url)
              /\ state.items[cur.key].source_hash = cur.h

\* C12: Unchanged. When the record has a remote_id and its stored hash is
\* the content hash, the upsert issues no request and leaves the record as
\* it is; and the upsert returns without a request as a no-op only when both
\* hold: the record has a remote_id and its stored hash is the content hash
C12_NoOpOnlyWhenBoth ==
    /\ (pc # "idle" /\ cur.url # NoUrl /\ cur.before.message_id # None
          /\ cur.before.source_hash = cur.h) =>
            /\ pc = "ret" /\ cur.calls = <<>>
            /\ state.items[cur.key] = cur.before
    /\ (pc = "ret" /\ cur.outcome = "skip") =>
            /\ cur.before.message_id # None
            /\ cur.before.source_hash = cur.h

\* C13: Update. The edit call goes to the url of the webhook followed by the
\* remote id stored in the record, and to no other message; when the edit
\* succeeds the record keeps that remote id and its stored hash is the new
\* content hash
C13_UpdateTargetsStoredId ==
    /\ cur.edit_url # <<>> =>
          /\ cur.before.message_id # None
          /\ cur.edit_url = <<cur.url, "messages", cur.before.message_id>>
    /\ (pc = "ret" /\ Is2xx(cur.patch_status)) =>
          /\ cur.calls = <<"PATCH">>
          /\ cur.outcome = "ok"
          /\ state.items[cur.key].message_id = cur.before.message_id
          /\ state.items[cur.key].source_hash = cur.h

C13_EditedOlderMessage ==
    /\ pc = "ret" /\ cur.patch_status = 200
    /\ cur.before.source_hash \notin {NoHash, cur.h}
    /\ cur.edit_url[3] = cur.before.message_id
    /\ cur.before.message_id < nextId - 1
    /\ state.items[cur.key].message_id = cur.before.message_id

\* C14: a create call answered by a 2xx without a message identifier is
\* fatal for the item: the upsert raises and leaves the record of the item
\* as it was; no step of an upsert writes a record without a remote id
C14_CreateWithoutIdIsFatal ==
    /\ []((pc = "ret" /\ Is2xx(cur.post_status) /\ cur.post_status # 200) =>
            /\ cur.outcome = "error" /\ cur.err = "noid"
            /\ state.items[cur.key] = cur.before)
    /\ [][\A k \in Keys :
            (pc \in SendPcs \cup {"item"} /\ pc' # "idle"
               /\ state'.items[k] # state.items[k]) =>
                  /\ state'.items[k].message_id # None
                  /\ \E m \in remote' : /\ m.id = state'.items[k].message_id
                                          /\ m.url = cur.url]_vars

C14_CreatedWithoutId ==
    /\ pc = "ret" /\ cur.post_status = 204 /\ cur.err = "noid"
    /\ Live(nextId - 1, cur.url)
    /\ \A k \in Keys : state.items[k].message_id # nextId - 1

\* C15: rate-limit compliance. After a 429 that carries retry_after = r (one
\* second when the field is missing or unreadable) the client sleeps at
\* least r before its next request, and that next request is the same
\* request
C15_RateLimitCompliance ==
    \A i \in 1..Len(tr.log) :
        (tr.log[i].status = 429 /\ i < Len(tr.log)) =>
            /\ tr.log[i].slept >= (IF tr.log[i].retry_after = Missing
                                   THEN Second ELSE tr.log[i].retry_after)
            /\ tr.log[i + 1].req = tr.log[i].req

\* C16: 429 answers have no retry ceiling and do not use up the attempt
\* budget: a call that was answered by nothing but 429 is never failed by the
\* transport, it goes on until the answer that is not a 429
C16_NoCeilingFor429 ==
    tr.result = "DiscordHTTPError" =>
        \E i \in 1..Len(tr.log) : tr.log[i].status # 429

\* C17: every transport call terminates, it returns or raises, whatever the
\* server answers, a server that answers 429 forever included
C17_EveryCallTerminates ==
    (tr.at = "send") ~> (tr.at = "done")

\* C18: discord_request never issues more than 6 requests in one call;
\* against answers that are all 5xx it sleeps 1, 2, 4, 8, 16 seconds after
\* the first five, raises at the sixth without a sleep, and not before
C18_BoundedRetries ==
    tr.fn = "discord_request" =>
        /\ Len(tr.log) <= 6
        /\ (\A i \in 1..Len(tr.log) : tr.log[i].status = 500) =>
              /\ \A i \in 1..Len(tr.log) :
                    tr.log[i].slept = IF i < 6 THEN Second * 2 ^ (i - 1) ELSE 0
              /\ tr.at = "done" <=> Len(tr.log) = 6
              /\ tr.at = "done" => (tr.result = "DiscordHTTPError" /\ tr.status = 500)

C18_BudgetExhausted ==
    /\ tr.fn = "discord_request" /\ tr.at = "done" /\ Len(tr.log) = 6
    /\ \A i \in 1..6 : tr.log[i].status = 500
    /\ tr.result = "DiscordHTTPError"

\* C19: a network error is retried like a 5xx inside the attempt budget; a
\* call whose last request met a network error ends with the failure of the
\* transport after the budget is used up, the exception of the request does
\* not reach the caller
C19_NetworkErrorRetried ==
    (tr.at = "done" /\ tr.log[Len(tr.log)].status = NetErr) =>
        /\ tr.result = "DiscordHTTPError"
        /\ Len(tr.log) = MAX_RETRIES

\* C20: a 404 answered to a request marked allow_404 ends the call at once,
\* on whichever attempt: no sleep and no request after it, the call returns
\* the status 404, and edit_webhook_message reports (False, text of the 404)
C20_Tolerated404Returned ==
    (tr.allow_404 /\ \E i \in 1..Len(tr.log) : tr.log[i].status = 404) =>
        LET n == Len(tr.log)
        IN /\ tr.log[n].status = 404
           /\ \A i \in 1..(n - 1) : tr.log[i].status # 404
           /\ tr.log[n].slept = 0
           /\ tr.at = "done" /\ tr.result = "return" /\ tr.status = 404
           /\ edit_webhook_message(tr) = <<FALSE, <<"text", 404>>>>

C20_NotFoundAfterRetries ==
    /\ tr.fn = "discord_request" /\ tr.method = "PATCH" /\ tr.allow_404
    /\ tr.at = "done" /\ tr.status = 404 /\ Len(tr.log) = 3
    /\ tr.log[1].status = 500 /\ tr.log[2].status = 429

\* C21: a non-2xx status other than 429, 5xx and a tolerated 404 ends the
\* call with that single response, on whichever attempt: no sleep and no
\* request after it. discord_request raises DiscordHTTPError carrying the
\* status and the body; discord_request_raw hands the response back and
\* upsert_message_strict raises on it
C21_FatalStatusFailsAtOnce ==
    \A i \in 1..Len(tr.log) :
        LET e == tr.log[i]
        IN (e.status = 400 \/ (e.status = 404 /\ ~tr.allow_404
                                 /\ (tr.fn = "discord_request" \/ tr.method = "POST"))) =>
              /\ i = Len(tr.log)
              /\ e.slept = 0
              /\ tr.at = "done"
              /\ tr.status = e.status
              /\ tr.text = <<"text", e.status>>
              /\ IF tr.fn = "discord_request"
                 THEN tr.result = "DiscordHTTPError"
                 ELSE /\ tr.result = "return"
                      /\ StrictPostOutcome(e.status) = "error"
                      /\ e.status = 400 => StrictPatchOutcome(e.status) = "error"

C21_BadRequestAfterRetry ==
    /\ tr.fn = "discord_request" /\ tr.at = "done" /\ Len(tr.log) = 2
    /\ tr.log[1].status = 500 /\ tr.log[2].status = 400
    /\ tr.result = "DiscordHTTPError" /\ tr.status = 400

\* C22: save_state does not corrupt the state file: after an interruption at
\* any point of save_state the file holds the whole previous document or the
\* whole new one, never an empty or cut document
C22_SaveIsAtomic ==
    fs.at = "interrupted" =>
        /\ Complete(fs.text)
        /\ fs.text \in {fs.before, fs.new}

\* C23: load_state returns a well-formed state in every case: it never
\* raises, without a file it returns the empty state, and the state a run
\* works on always has the keys items, webhook_fp, tcache and torder
C23_LoadStateWellFormed ==
    /\ [](/\ fs.loaded # "JSONDecodeError"
          /\ fs.at = "run" => StateKeys \subseteq DOMAIN fs.mem)
    /\ [][(fs.at # "run" /\ fs'.at = "run" /\ ~fs.exists) =>
            fs'.mem = Default]_vars

\* C24: in every upsert the fingerprint of the destination is verified, or
\* established when absent, before a POST or a PATCH is sent to it: whenever
\* an upsert is sending or has sent a request, the state holds for the
\* destination the fingerprint of the url the request goes to
C24_FingerprintBeforeMutation ==
    (pc \in SendPcs \/ cur.calls # <<>>) =>
        state.webhook_fp[cur.dest] = sha(cur.url)

\* C25: SyncRecord invariant. Every step of an upsert that writes a record
\* writes the record of the item of the call; its remote_id is the id of
\* a message of that item alive behind the webhook at that moment, either
\* the id the POST just returned or the id whose PATCH was just answered 2xx;
\* its stored hash is the content hash of the call
C25_RecordPointsAtLiveMessage ==
    [][\A k \in Keys :
          (pc \in SendPcs /\ pc' # "idle" /\ state'.items[k] # state.items[k]) =>
             LET rec == state'.items[k]
             IN /\ k = cur.key
                /\ \E m \in remote' : m.id = rec.message_id /\ m.url = cur.url
                                        /\ m.key = k
                /\ rec.source_hash = cur.h
                /\ \/ /\ pc = "patch" /\ Is2xx(cur'.patch_status)
                      /\ rec.message_id = cur.before.message_id
                   \/ /\ pc \in {"post", "repost"} /\ cur'.post_status = 200
                      /\ rec.message_id = nextId /\ nextId' = nextId + 1]_vars

C25_RecreatedRecordLive ==
    /\ prog = "sync" /\ pc = "ret" /\ cur.patch_status = 404
    /\ cur.outcome = "ok"
    /\ Live(state.items[cur.key].message_id, cur.url)
    /\ ~Live(cur.before.message_id, cur.url)
    /\ state.items[cur.key].source_hash = cur.h

C26_HashFoldsAttachments ==
    (Len(rendered) = 2 /\ rendered[1].key = rendered[2].key
       /\ rendered[1].payload = rendered[2].payload
       /\ rendered[1].files # rendered[2].files) =>
          rendered[1].content_hash # rendered[2].content_hash

\* C27: no failure diagnostic carries the webhook token: every error raised
\* for a failed request, by upsert_message_strict and by discord_request,
\* shows the url only with its token replaced.
C27_NoTokenInDiagnostic ==
    diag # NoDiag =>
        \A i \in 1..Len(diag.message) : diag.message[i] \notin Tokens

\* C29: translation cache bound: from a state where the keys of tcache are
\* the entries of torder, after any translate calls torder holds at most
\* 2500 entries with no duplicates and the keys of tcache are the entries
\* of torder; an overflow evicts the 400 oldest-inserted keys, and a cache
\* hit leaves the order as it was.
C29_CacheWellFormed ==
    /\ Len(tstate.torder) <= 2500
    /\ Cardinality(Entries(tstate.torder)) = Len(tstate.torder)
    /\ tstate.tcache = Entries(tstate.torder)

C29_CallKeepsOrder ==
    tstate'.calls = tstate.calls + 1 =>
        LET text == tstate'.last
            old == tstate.torder
            grown == Append(old, text.key)
        IN IF text.kind = "words" /\ text.key \notin tstate.tcache
           THEN IF Len(grown) > 2500
                THEN /\ tstate'.torder = SubSeq(grown, 401, Len(grown))
                     /\ tstate.tcache \ tstate'.tcache
                            = {old[i] : i \in 1..400}
                ELSE tstate'.torder = grown
           ELSE /\ tstate'.torder = old
                /\ tstate'.tcache = tstate.tcache

C30_UpsertsEquivalent ==
    (prog = "equiv" /\ eq.strict # NotRun /\ eq.lib # NotRun) =>
        /\ eq.strict.calls = eq.lib.calls
        /\ eq.strict.record.message_id = eq.lib.record.message_id
        /\ eq.strict.record.source_hash = eq.lib.record.source_hash

====
